---- MODULE Spec2Model ----
(***************************************************************************)
(* State-machine model of SQLAgent (src/sql_agent.py): the Query Extractor *)
(* (_clean_sql_query), the Query Executor (execute_query), validate_query  *)
(* and generate_sql, over an embedded store and a hosted language model.   *)
(*                                                                         *)
(* A text is a sequence of one-character strings, so that trimming,        *)
(* upper-casing, searching and slicing are computed character by character *)
(* as Python computes them.  Message literals of the source are kept as    *)
(* single elements of a message sequence.                                  *)
(***************************************************************************)
EXTENDS Integers, Sequences, FiniteSets, TLC

VARIABLES
  store,        \* the embedded store: does table t exist, how many rows
  replies,      \* the completion texts the hosted model may answer with
  op,           \* the agent operation called last ("none" before any call)
  arg,          \* the text that call was given
  ret,          \* what the call returned: [tag, text, rows, ok]
  err,          \* what the call raised:   [raised, type, msg]
  sent,         \* the statements handed to the store during that call
  storeBefore,  \* the store when that call started
  llmCalls,     \* how often that call invoked the hosted model
  completion,   \* the raw completion text that call received from the model
  llmRaised,    \* the error the hosted model raised in that call, if any
  storeErr,     \* the message the store raised with in that call, if any
  database,     \* the tables of the database when the agent was constructed
  schema,       \* self.schema, the agent's Schema Snapshot
  prompt,       \* the schema description composed by that call, if any
  pc,           \* where the handling of the submitted question stands
  steps,        \* the steps taken for that question, each with its outcome
  samplesSeen,  \* history: the lists get_sample_queries has returned,
                \* each with the state of the store at the call
  session,      \* st.session_state of the UI session
  disk,         \* the database files written so far, by path
  page,         \* how the two blocks of the last page run ended
  lastFrom      \* history: the tables the agent that produced last_results
                \* was built on

vars ==
  <<store, replies, op, arg, ret, err, sent, storeBefore, llmCalls,
    completion, llmRaised, storeErr, database, schema, prompt, pc, steps,
    samplesSeen, session, disk, page, lastFrom>>

----------------------------------------------------------------------------
(* Bounds of the model *)

\* most pieces a completion text is built from
MaxPieces == 3
\* most rows of the store's table
MaxRows == 1
\* most tables of a loaded database
MaxTables == 2
\* most rows of a table of a loaded database
MaxTableRows == 6
\* most database files written in a UI session
MaxUploads == 2

----------------------------------------------------------------------------
(* Characters and words *)

SP == " "
NL == "\n"
SEMI == ";"
\* the backquote character, three of which make a code fence
TICK == "BACKQUOTE"
\* the character U+00DF (sharp s), whose upper-case form is two characters
ESZETT == "U+00DF"

\* characters str.strip() and the regex whitespace class remove
Whitespace == {SP, NL}

LowerAlpha ==
  <<"a","b","c","d","e","f","g","h","i","j","k","l","m",
    "n","o","p","q","r","s","t","u","v","w","x","y","z">>
UpperAlpha ==
  <<"A","B","C","D","E","F","G","H","I","J","K","L","M",
    "N","O","P","Q","R","S","T","U","V","W","X","Y","Z">>

\* ASCII case folding of one character, as the store's parser does it
AsciiUpperChar(c) ==
  IF \E i \in 1..26 : LowerAlpha[i] = c
  THEN UpperAlpha[CHOOSE i \in 1..26 : LowerAlpha[i] = c]
  ELSE c

\* str.lower() on one character of a type name
LowerChar(c) ==
  IF \E i \in 1..26 : UpperAlpha[i] = c
  THEN LowerAlpha[CHOOSE i \in 1..26 : UpperAlpha[i] = c]
  ELSE c

\* str.lower()
lower(s) == [i \in 1..Len(s) |-> LowerChar(s[i])]

\* str.upper() on one character: a-z map to A-Z, the sharp s to "SS",
\* every other character to itself
UpperChar(c) ==
  IF c = ESZETT THEN <<"S","S">>
  ELSE IF \E i \in 1..26 : LowerAlpha[i] = c
       THEN <<UpperAlpha[CHOOSE i \in 1..26 : LowerAlpha[i] = c]>>
       ELSE <<c>>

RECURSIVE upper(_)
\* str.upper()
upper(s) == IF s = <<>> THEN <<>> ELSE UpperChar(Head(s)) \o upper(Tail(s))

RECURSIVE lstrip(_)
lstrip(s) ==
  IF s # <<>> /\ Head(s) \in Whitespace THEN lstrip(Tail(s)) ELSE s

RECURSIVE rstrip(_)
rstrip(s) ==
  IF s # <<>> /\ s[Len(s)] \in Whitespace
  THEN rstrip(SubSeq(s, 1, Len(s) - 1)) ELSE s

\* str.strip()
strip(s) == rstrip(lstrip(s))

\* str.startswith(p)
startswith(s, p) == Len(p) <= Len(s) /\ SubSeq(s, 1, Len(p)) = p

\* str.endswith(p)
endswith(s, p) ==
  Len(p) <= Len(s) /\ SubSeq(s, Len(s) - Len(p) + 1, Len(s)) = p

\* p in s
contains(s, p) ==
  \E i \in 1..(Len(s) - Len(p) + 1) : SubSeq(s, i, i + Len(p) - 1) = p

\* str.find(p): 0-based index of the first occurrence, -1 when absent
find(s, p) ==
  IF contains(s, p)
  THEN (CHOOSE i \in 1..(Len(s) - Len(p) + 1) :
          /\ SubSeq(s, i, i + Len(p) - 1) = p
          /\ \A j \in 1..(i - 1) : SubSeq(s, j, j + Len(p) - 1) # p) - 1
  ELSE -1

\* s[i:] for i >= 0
sliceFrom(s, i) == SubSeq(s, i + 1, Len(s))

\* s[:n]
sliceTo(s, n) == SubSeq(s, 1, IF n < Len(s) THEN n ELSE Len(s))

RECURSIVE re_sub(_, _)
\* re.sub of the pattern (lit followed by any run of whitespace) by the
\* empty string: every non-overlapping occurrence of the literal lit, with
\* the whitespace that follows it, is deleted
re_sub(lit, s) ==
  IF s = <<>> THEN <<>>
  ELSE IF startswith(s, lit)
       THEN re_sub(lit, lstrip(sliceFrom(s, Len(lit))))
       ELSE <<Head(s)>> \o re_sub(lit, Tail(s))

FENCE == <<TICK, TICK, TICK>>
FENCE_SQL == <<TICK, TICK, TICK, "s", "q", "l">>

KW_SELECT == <<"S","E","L","E","C","T">>
KW_INSERT == <<"I","N","S","E","R","T">>
KW_UPDATE == <<"U","P","D","A","T","E">>
KW_DELETE == <<"D","E","L","E","T","E">>
KW_CREATE == <<"C","R","E","A","T","E">>
KW_DROP == <<"D","R","O","P">>
KW_ALTER == <<"A","L","T","E","R">>
KW_WITH == <<"W","I","T","H">>

\* the keyword list of _clean_sql_query and of execute_query, in its order
sql_keywords ==
  <<KW_SELECT, KW_INSERT, KW_UPDATE, KW_DELETE,
    KW_CREATE, KW_DROP, KW_ALTER, KW_WITH>>

Keywords == {sql_keywords[i] : i \in 1..Len(sql_keywords)}

----------------------------------------------------------------------------
(* The Query Extractor *)

RECURSIVE truncate_one_late(_, _)
\* the loop cutting one character after the keyword's position
truncate_one_late(s, k) ==
  IF k > Len(sql_keywords) THEN s
  ELSE IF contains(upper(s), sql_keywords[k])
       THEN sliceFrom(s, find(upper(s), sql_keywords[k]) + 1)
       ELSE truncate_one_late(s, k + 1)

RECURSIVE truncate_at_keyword(_, _)
\* the for loop of _clean_sql_query from keyword number k on: the first
\* keyword OF THE LIST that the upper-cased text contains decides the cut
truncate_at_keyword(s, k) ==
  IF k > Len(sql_keywords) THEN s
  ELSE IF contains(upper(s), sql_keywords[k])
       THEN sliceFrom(s, find(upper(s), sql_keywords[k]))
       ELSE truncate_at_keyword(s, k + 1)

\* the terminator appended without looking at the end of the text
ensure_semicolon_always(s) == s \o <<SEMI>>

\* "if not sql_query.endswith(';'): sql_query += ';'"
ensure_semicolon(s) == IF endswith(s, <<SEMI>>) THEN s ELSE s \o <<SEMI>>

\* SQLAgent._clean_sql_query
clean_sql_query(s) ==
  ensure_semicolon(
    truncate_at_keyword(strip(re_sub(FENCE, re_sub(FENCE_SQL, s))), 1))

----------------------------------------------------------------------------
(* The embedded store, as the agent sees it through pandas and SQLAlchemy *)

Letters ==
  {LowerAlpha[i] : i \in 1..26} \cup {UpperAlpha[i] : i \in 1..26}

\* the store's own reading of a statement: leading whitespace is skipped,
\* keywords are matched without regard to ASCII case and must end at a
\* word boundary; <<>> when the text starts with no statement keyword
StatementKind(s) ==
  LET t == lstrip(s)
      u == [i \in 1..Len(t) |-> AsciiUpperChar(t[i])]
      found == {k \in Keywords :
                  /\ startswith(u, k)
                  /\ (Len(u) > Len(k) => u[Len(k) + 1] \notin Letters)}
  IN IF found = {} THEN <<>> ELSE CHOOSE k \in found : TRUE

\* can the store run a statement of kind k at all
Applicable(k, st) == IF k = KW_CREATE THEN ~st.exists ELSE st.exists

\* what a statement of kind k does to the table once it took effect
Effect(k, st) ==
  IF k = KW_DROP THEN [exists |-> FALSE, rows |-> 0]
  ELSE IF k = KW_DELETE THEN [exists |-> TRUE, rows |-> 0]
  ELSE IF k = KW_CREATE THEN [exists |-> TRUE, rows |-> 0]
  ELSE IF k = KW_INSERT
       THEN [exists |-> TRUE,
             rows |-> IF st.rows < MaxRows THEN st.rows + 1 ELSE st.rows]
  ELSE st

ReturnsRows(k) == k \in {KW_SELECT, KW_WITH}

MSG_SYNTAX == <<"syntax error">>
MSG_NO_TABLE == <<"no such table">>
MSG_EXISTS == <<"table already exists">>
MSG_NO_ROWS == <<"This result object does not return rows">>

\* the ways the store can answer the statement s in state st: it rejects
\* the statement (failed, with its message, nothing changed), or runs it.
\* A statement that ran and changes data may or may not stay in effect
\* once the connection is given back (the driver commits DDL at once and
\* the library version decides for the rest): both outcomes are kept.
StoreRun(s, st) ==
  LET k == StatementKind(s)
      reject(m) == [failed |-> TRUE, msg |-> m, after |-> st, kind |-> k]
  IN IF k = <<>> THEN {reject(MSG_SYNTAX)}
     ELSE IF ~Applicable(k, st)
          THEN {reject(IF k = KW_CREATE THEN MSG_EXISTS ELSE MSG_NO_TABLE)}
          ELSE {reject(MSG_SYNTAX)} \cup
               {[failed |-> FALSE, msg |-> <<>>, after |-> a, kind |-> k] :
                  a \in {st, Effect(k, st)}}

\* pd.read_sql_query(sql_query, engine): the statement is run, and a
\* statement that returns no rows makes the call raise after it ran
read_sql_query(s, st) ==
  LET mk(r) ==
        IF r.failed THEN r
        ELSE IF ReturnsRows(r.kind) THEN r
        ELSE [failed |-> TRUE, msg |-> MSG_NO_ROWS,
              after |-> r.after, kind |-> r.kind]
  IN {mk(r) : r \in StoreRun(s, st)}

----------------------------------------------------------------------------
(* Values returned and raised *)

NoRet ==
  [tag |-> "none", text |-> <<>>, rows |-> 0, ok |-> FALSE, data |-> <<>>]
TextRet(t) ==
  [tag |-> "text", text |-> t, rows |-> 0, ok |-> FALSE, data |-> <<>>]
RowsRet(n) ==
  [tag |-> "rows", text |-> <<>>, rows |-> n, ok |-> FALSE, data |-> <<>>]
BoolRet(b) ==
  [tag |-> "bool", text |-> <<>>, rows |-> 0, ok |-> b, data |-> <<>>]
\* a list of questions
ListRet(l) ==
  [tag |-> "list", text |-> <<>>, rows |-> 0, ok |-> FALSE, data |-> l]
\* one table's entry of the snapshot
EntryRet(e) ==
  [tag |-> "entry", text |-> <<>>, rows |-> 0, ok |-> FALSE, data |-> <<e>>]
\* a mapping from table names to entries: the snapshot, or the empty one
MappingRet(m) ==
  [tag |-> "mapping", text |-> <<>>, rows |-> 0, ok |-> FALSE, data |-> m]

NoErr == [raised |-> FALSE, type |-> "", msg |-> <<>>]
\* raise Exception(msg)
Raise(m) == [raised |-> TRUE, type |-> "Exception", msg |-> m]

ERR_PREFIX == <<"Error executing SQL query: ">>
ERR_EMPTY == <<"Empty SQL query">>
ERR_FORMAT ==
  <<"Invalid SQL query format. Query must start with a SQL keyword. Got: ">>
ERR_DOTS == <<"...">>
\* the length of the excerpt of the offending text in the format message
ExcerptLen == 50

----------------------------------------------------------------------------
(* The database behind the store and the Schema Introspector *)

TYPE_BIGINT == <<"B","I","G","I","N","T">>
TYPE_FLOAT == <<"F","L","O","A","T">>
TYPE_TEXT == <<"T","E","X","T">>
TYPE_REAL == <<"R","E","A","L">>

Column(n, t) == [name |-> n, type |-> t]

\* the tables a database can hold, in the order of their names: a numeric
\* first column, a numeric second column, and no column whose type name
\* holds "int" or "float"
TableDefs ==
  << [name |-> <<"a">>,
      cols |-> <<Column(<<"i","d">>, TYPE_BIGINT), Column(<<"n">>, TYPE_TEXT)>>],
     [name |-> <<"b">>,
      cols |-> <<Column(<<"n">>, TYPE_TEXT), Column(<<"p">>, TYPE_FLOAT)>>],
     [name |-> <<"c">>,
      cols |-> <<Column(<<"n">>, TYPE_TEXT), Column(<<"w">>, TYPE_REAL)>>] >>

\* table number i with n rows; unreadable: "SELECT * FROM name LIMIT 5"
\* raises on it
Table(i, n, u) ==
  [name |-> TableDefs[i].name, cols |-> TableDefs[i].cols,
   nrows |-> n, unreadable |-> u]

RECURSIVE DatabasesFrom(_, _)
\* the databases of at most k tables out of the tables number i and up
DatabasesFrom(i, k) ==
  IF i > Len(TableDefs) \/ k = 0 THEN {<<>>}
  ELSE DatabasesFrom(i + 1, k) \cup
       {<<Table(i, n, u)>> \o d :
          n \in 0..MaxTableRows, u \in BOOLEAN,
          d \in DatabasesFrom(i + 1, k - 1)}

Databases == DatabasesFrom(1, MaxTables)

\* the state of the table that statements act on: the first table
StoreOf(db) ==
  IF db = <<>> THEN [exists |-> FALSE, rows |-> 0]
  ELSE [exists |-> TRUE, rows |-> db[1].nrows]

\* the tables of the database as they are now, after the statements that
\* took effect on the first table
current_tables(db, st) ==
  IF db = <<>> THEN <<>>
  ELSE (IF st.exists THEN <<[db[1] EXCEPT !.nrows = st.rows]>> ELSE <<>>)
       \o Tail(db)

\* the LIMIT of the sample query
SampleLimit == 5

\* the sample query without its LIMIT
sample_rows_unlimited(t) ==
  IF t.unreadable THEN <<>> ELSE [j \in 1..t.nrows |-> j]

\* the try block around the sample query: the first rows of the table, at
\* most SampleLimit of them, and the empty list when the query raised
sample_rows(t) ==
  IF t.unreadable THEN <<>>
  ELSE [j \in 1..(IF t.nrows < SampleLimit THEN t.nrows ELSE SampleLimit)
          |-> j]

\* the entry of one table: column names, declared types, sample rows
table_schema(t) ==
  [name |-> t.name,
   columns |-> [i \in 1..Len(t.cols) |-> t.cols[i].name],
   types |-> t.cols,
   sample_data |-> sample_rows(t)]

RECURSIVE introspect(_, _)
\* the loop of _get_database_schema from table number i on
introspect(db, i) ==
  IF i > Len(db) THEN <<>>
  ELSE <<table_schema(db[i])>> \o introspect(db, i + 1)

\* the loop leaving out every table whose sample query raises
get_database_schema_skipping(db) ==
  introspect(SelectSeq(db, LAMBDA t : ~t.unreadable), 1)

\* SQLAgent._get_database_schema
get_database_schema(db) == introspect(db, 1)

----------------------------------------------------------------------------
(* The Prompt Composer *)

Line(k, n, t, i, r) == [kind |-> k, name |-> n, type |-> t, idx |-> i, row |-> r]
Lit(k) == Line(k, <<>>, <<>>, 0, 0)

\* the number of sample rows shown per table
PromptRows == 3

\* the sample section showing every sample row of the snapshot
sample_lines_all(e) ==
  IF e.sample_data # <<>>
  THEN <<Lit("Sample data:")>> \o
       [i \in 1..Len(e.sample_data) |->
          Line("  Row ", <<>>, <<>>, i, e.sample_data[i])]
  ELSE <<>>

\* "if table_info['sample_data']:" and the loop over its first rows
sample_lines(e) ==
  IF e.sample_data # <<>>
  THEN <<Lit("Sample data:")>> \o
       [i \in 1..Len(sliceTo(e.sample_data, PromptRows)) |->
          Line("  Row ", <<>>, <<>>, i, sliceTo(e.sample_data, PromptRows)[i])]
  ELSE <<>>

\* the lines of one table
table_block(e) ==
  <<Line("Table: ", e.name, <<>>, 0, 0), Lit("Columns:")>> \o
  [i \in 1..Len(e.types) |->
     Line("  - ", e.types[i].name, e.types[i].type, 0, 0)] \o
  sample_lines(e) \o
  <<Lit("")>>

RECURSIVE table_blocks(_, _)
\* the loop over the snapshot from entry number i on
table_blocks(sch, i) ==
  IF i > Len(sch) THEN <<>>
  ELSE table_block(sch[i]) \o table_blocks(sch, i + 1)

HintLines ==
  <<Lit("RELATIONSHIP HINTS:"),
    Lit("- When joining tables, look for common column names (like 'id', 'customer_id', etc.)"),
    Lit("- Use appropriate JOIN types (INNER, LEFT, RIGHT, FULL) based on the question"),
    Lit("- Consider using table aliases for clarity in complex queries"),
    Lit("- When comparing data across tables, use UNION or JOIN as appropriate"),
    Lit("")>>

\* the hints added as soon as there is a table
relationship_hints_any(sch) == IF Len(sch) > 0 THEN HintLines ELSE <<>>

\* "if len(self.schema) > 1:"
relationship_hints(sch) == IF Len(sch) > 1 THEN HintLines ELSE <<>>

\* SQLAgent._create_schema_prompt on the snapshot sch
create_schema_prompt(sch) ==
  <<Lit("Database Schema:"), Lit("")>> \o
  table_blocks(sch, 1) \o
  relationship_hints(sch)

\* the schema description composed from a fresh introspection of the store
compose_fresh(sch) ==
  create_schema_prompt(get_database_schema(current_tables(database, store)))

\* "schema_prompt = self._create_schema_prompt()" of generate_sql
compose(sch) == create_schema_prompt(sch)

----------------------------------------------------------------------------
(* The Sample Query Synthesizer and get_table_info *)

Q(template, col, table) == [template |-> template, col |-> col, table |-> table]

\* "'int' in str(dtype).lower() or 'float' in str(dtype).lower()"
is_numeric(dtype) ==
  \/ contains(lower(dtype), <<"i","n","t">>)
  \/ contains(lower(dtype), <<"f","l","o","a","t">>)

numeric_cols(e) == SelectSeq(e.types, LAMBDA c : is_numeric(c.type))

basic_queries(e) ==
  <<Q("Show me the first 10 rows from {table}", <<>>, e.name),
    Q("Count the total number of records in {table}", <<>>, e.name),
    Q("Show me all unique values in the first column of {table}", <<>>,
      e.name)>>

numeric_queries(e) ==
  IF numeric_cols(e) # <<>>
  THEN LET c == numeric_cols(e)[1].name
       IN <<Q("Calculate the average of {col} in {table}", c, e.name),
            Q("Find the maximum value of {col} in {table}", c, e.name),
            Q("Show me the top 5 records by {col} in {table}", c, e.name)>>
  ELSE <<>>

RECURSIVE all_queries(_, _)
\* the loop of get_sample_queries from entry number i on
all_queries(sch, i) ==
  IF i > Len(sch) THEN <<>>
  ELSE basic_queries(sch[i]) \o numeric_queries(sch[i]) \o
       all_queries(sch, i + 1)

\* the length the list of sample questions is cut to
SampleQueryLimit == 10

\* the questions computed from a fresh introspection of the store
sample_queries_fresh(sch) ==
  sliceTo(
    all_queries(get_database_schema(current_tables(database, store)), 1),
    SampleQueryLimit)

\* the whole list of questions, not cut
sample_queries_uncut(sch) == all_queries(sch, 1)

\* the result of SQLAgent.get_sample_queries on the snapshot sch
sample_queries(sch) == sliceTo(all_queries(sch, 1), SampleQueryLimit)

\* the argument of a call that names no table (None)
NoName == <<"None">>

\* the result of get_table_info testing "table_name is not None"
table_info_is_none(sch, name) ==
  IF name # NoName
  THEN IF \E i \in 1..Len(sch) : sch[i].name = name
       THEN EntryRet(sch[CHOOSE i \in 1..Len(sch) : sch[i].name = name])
       ELSE MappingRet(<<>>)
  ELSE MappingRet(sch)

\* the result of SQLAgent.get_table_info: "if table_name:" is false for
\* None and for the empty text
table_info(sch, name) ==
  IF name # NoName /\ name # <<>>
  THEN IF \E i \in 1..Len(sch) : sch[i].name = name
       THEN EntryRet(sch[CHOOSE i \in 1..Len(sch) : sch[i].name = name])
       ELSE MappingRet(<<>>)
  ELSE MappingRet(sch)

----------------------------------------------------------------------------
(* The Query Executor *)

\* "any(query_upper.startswith(keyword) for keyword in sql_keywords)"
starts_with_keyword(s) ==
  \E i \in 1..Len(sql_keywords) : startswith(upper(strip(s)), sql_keywords[i])

\* the validation without the keyword-prefix check
gate_error_no_format(s) == IF strip(s) = <<>> THEN ERR_EMPTY ELSE <<>>

\* the validation with a guard that refuses DROP and DELETE statements
gate_error_read_only(s) ==
  IF strip(s) = <<>> THEN ERR_EMPTY
  ELSE IF \/ ~starts_with_keyword(s)
          \/ startswith(upper(strip(s)), KW_DROP)
          \/ startswith(upper(strip(s)), KW_DELETE)
       THEN ERR_FORMAT \o sliceTo(s, ExcerptLen) \o ERR_DOTS
       ELSE <<>>

\* the validation of execute_query: the message it raises with, <<>> when
\* the text passes
gate_error(s) ==
  IF strip(s) = <<>> THEN ERR_EMPTY
  ELSE IF ~starts_with_keyword(s)
       THEN ERR_FORMAT \o sliceTo(s, ExcerptLen) \o ERR_DOTS
       ELSE <<>>

\* the re-raise without the message of the error it caught
wrap_error_no_message(m) == Raise(ERR_PREFIX)

\* "except Exception as e: raise Exception(f'Error executing SQL query: ...')"
wrap_error(m) == Raise(ERR_PREFIX \o m)

\* SQLAgent.execute_query: every outcome of one call with text s in store
\* state st
execute_outcomes(s, st) ==
  IF gate_error(s) # <<>>
  THEN {[ret |-> NoRet, err |-> wrap_error(gate_error(s)),
         sent |-> <<>>, after |-> st, storeErr |-> <<>>]}
  ELSE {[ret |-> IF r.failed THEN NoRet ELSE RowsRet(r.after.rows),
         err |-> IF r.failed THEN wrap_error(r.msg) ELSE NoErr,
         sent |-> <<s>>, after |-> r.after, storeErr |-> r.msg] :
           r \in read_sql_query(s, st)}

\* execute_query taking the snapshot again after the statement ran
execute_query_refreshing(s) ==
  \E o \in execute_outcomes(s, store) :
    /\ op' = "execute_query"
    /\ arg' = s
    /\ ret' = o.ret
    /\ err' = o.err
    /\ sent' = o.sent
    /\ storeBefore' = store
    /\ store' = o.after
    /\ llmCalls' = 0
    /\ completion' = <<>>
    /\ llmRaised' = NoErr
    /\ storeErr' = o.storeErr
    /\ prompt' = <<>>
    /\ schema' = get_database_schema(current_tables(database, o.after))
    /\ UNCHANGED <<replies, database, pc, steps, samplesSeen, session, disk, page, lastFrom>>

execute_query(s) ==
  \E o \in execute_outcomes(s, store) :
    /\ op' = "execute_query"
    /\ arg' = s
    /\ ret' = o.ret
    /\ err' = o.err
    /\ sent' = o.sent
    /\ storeBefore' = store
    /\ store' = o.after
    /\ llmCalls' = 0
    /\ completion' = <<>>
    /\ llmRaised' = NoErr
    /\ storeErr' = o.storeErr
    /\ prompt' = <<>>
    /\ UNCHANGED <<replies, database, schema, pc, steps, samplesSeen, session, disk, page, lastFrom>>

\* SQLAgent.validate_query: the text is handed to the store as it is and
\* run there; the call answers whether the store raised
validate_outcomes(s, st) ==
  {[ret |-> BoolRet(~r.failed), err |-> NoErr, sent |-> <<s>>,
    after |-> r.after, storeErr |-> r.msg] : r \in StoreRun(s, st)}

validate_query(s) ==
  \E o \in validate_outcomes(s, store) :
    /\ op' = "validate_query"
    /\ arg' = s
    /\ ret' = o.ret
    /\ err' = o.err
    /\ sent' = o.sent
    /\ storeBefore' = store
    /\ store' = o.after
    /\ llmCalls' = 0
    /\ completion' = <<>>
    /\ llmRaised' = NoErr
    /\ storeErr' = o.storeErr
    /\ prompt' = <<>>
    /\ UNCHANGED <<replies, database, schema, pc, steps, samplesSeen, session, disk, page, lastFrom>>

----------------------------------------------------------------------------
(* The language-model call and generate_sql *)

\* the errors the hosted completion call can raise
ModelErrors ==
  {[raised |-> TRUE, type |-> "ResourceExhausted",
    msg |-> <<"quota exceeded">>],
   [raised |-> TRUE, type |-> "ConnectionError",
    msg |-> <<"network unreachable">>]}

\* chain.invoke(...): the call raises, or answers with a completion text
llm_invoke(rs) ==
  {[raised |-> e, content |-> <<>>] : e \in ModelErrors} \cup
  {[raised |-> NoErr, content |-> c] : c \in rs}

\* generate_sql catching the error of the model call and raising its own
generate_result_wrapping(r) ==
  IF r.raised.raised
  THEN [ret |-> NoRet,
        err |-> Raise(<<"Error generating SQL: ">> \o r.raised.msg)]
  ELSE [ret |-> TextRet(clean_sql_query(strip(r.content))), err |-> NoErr]

\* SQLAgent.generate_sql after the model call answered r: an error of the
\* call is not caught; a completion is trimmed and cleaned
generate_result(r) ==
  IF r.raised.raised
  THEN [ret |-> NoRet, err |-> r.raised]
  ELSE [ret |-> TextRet(clean_sql_query(strip(r.content))), err |-> NoErr]

generate_sql(question) ==
  \E r \in llm_invoke(replies) :
    /\ op' = "generate_sql"
    /\ arg' = question
    /\ ret' = generate_result(r).ret
    /\ err' = generate_result(r).err
    /\ sent' = <<>>
    /\ storeBefore' = store
    /\ llmCalls' = 1
    /\ completion' = r.content
    /\ llmRaised' = r.raised
    /\ storeErr' = <<>>
    /\ prompt' = compose(schema)
    /\ UNCHANGED <<store, replies, database, schema, pc, steps, samplesSeen, session, disk, page, lastFrom>>

\* SQLAgent.explain_query after the model call answered r: no handler
\* around the call, the completion is trimmed
explain_result(r) ==
  IF r.raised.raised
  THEN [ret |-> NoRet, err |-> r.raised]
  ELSE [ret |-> TextRet(strip(r.content)), err |-> NoErr]

explain_query(s) ==
  \E r \in llm_invoke(replies) :
    /\ op' = "explain_query"
    /\ arg' = s
    /\ ret' = explain_result(r).ret
    /\ err' = explain_result(r).err
    /\ sent' = <<>>
    /\ storeBefore' = store
    /\ llmCalls' = 1
    /\ completion' = r.content
    /\ llmRaised' = r.raised
    /\ storeErr' = <<>>
    /\ prompt' = <<>>
    /\ UNCHANGED <<store, replies, database, schema, pc, steps, samplesSeen, session, disk, page, lastFrom>>

----------------------------------------------------------------------------
(* The calls that read the snapshot *)

get_table_info(name) ==
  /\ op' = "get_table_info"
  /\ arg' = name
  /\ ret' = table_info(schema, name)
  /\ err' = NoErr
  /\ sent' = <<>>
  /\ storeBefore' = store
  /\ llmCalls' = 0
  /\ completion' = <<>>
  /\ llmRaised' = NoErr
  /\ storeErr' = <<>>
  /\ prompt' = <<>>
  /\ UNCHANGED <<store, replies, database, schema, pc, steps, samplesSeen, session, disk, page, lastFrom>>

get_sample_queries ==
  /\ op' = "get_sample_queries"
  /\ arg' = <<>>
  /\ ret' = ListRet(sample_queries(schema))
  /\ err' = NoErr
  /\ sent' = <<>>
  /\ storeBefore' = store
  /\ llmCalls' = 0
  /\ completion' = <<>>
  /\ llmRaised' = NoErr
  /\ storeErr' = <<>>
  /\ prompt' = <<>>
  /\ samplesSeen' = samplesSeen \cup {[list |-> ret'.data, store |-> store]}
  /\ UNCHANGED <<store, replies, database, schema, pc, steps, session, disk,
                 page, lastFrom>>

----------------------------------------------------------------------------
(* The handler of the question form: generate_sql step by step, then      *)
(* execute_query, inside one try block                                     *)

\* the step that keeps trying after a failure
next_pc_retry(step, ok) ==
  IF ~ok THEN step
  ELSE CASE step = "compose" -> "call_model"
         [] step = "call_model" -> "extract"
         [] step = "extract" -> "execute"
         [] step = "execute" -> "done"

\* where control goes after a step: to the next statement, or out of the
\* try block when the step raised
next_pc(step, ok) ==
  IF ~ok THEN "failed"
  ELSE CASE step = "compose" -> "call_model"
         [] step = "call_model" -> "extract"
         [] step = "extract" -> "execute"
         [] step = "execute" -> "done"

Step(n, ok) == [name |-> n, ok |-> ok]

\* "if question.strip():" and the entry into the try block
submit(question) ==
  /\ pc \in {"idle", "done", "failed"}
  /\ strip(question) # <<>>
  /\ pc' = "compose"
  /\ steps' = <<>>
  /\ op' = "ask"
  /\ arg' = question
  /\ ret' = NoRet
  /\ err' = NoErr
  /\ sent' = <<>>
  /\ storeBefore' = store
  /\ llmCalls' = 0
  /\ completion' = <<>>
  /\ llmRaised' = NoErr
  /\ storeErr' = <<>>
  /\ prompt' = <<>>
  /\ UNCHANGED <<store, replies, database, schema, samplesSeen, session, disk, page, lastFrom>>

\* "schema_prompt = self._create_schema_prompt()"
compose_step ==
  /\ pc = "compose"
  /\ prompt' = compose(schema)
  /\ steps' = Append(steps, Step("compose", TRUE))
  /\ pc' = next_pc("compose", TRUE)
  /\ UNCHANGED <<store, replies, op, arg, ret, err, sent, storeBefore,
                 llmCalls, completion, llmRaised, storeErr, database,
                 schema, samplesSeen, session, disk, page, lastFrom>>

\* "response = chain.invoke(...)"
call_model_step ==
  /\ pc = "call_model"
  /\ \E r \in llm_invoke(replies) :
       /\ llmCalls' = llmCalls + 1
       /\ completion' = r.content
       /\ llmRaised' = r.raised
       /\ err' = generate_result(r).err
       /\ steps' = Append(steps, Step("call_model", ~r.raised.raised))
       /\ pc' = next_pc("call_model", ~r.raised.raised)
  /\ UNCHANGED <<store, replies, op, arg, ret, sent, storeBefore, storeErr,
                 database, schema, prompt, samplesSeen, session, disk, page, lastFrom>>

\* "sql_query = response.content.strip()" and _clean_sql_query
extract_step ==
  /\ pc = "extract"
  /\ ret' = generate_result([raised |-> NoErr, content |-> completion]).ret
  /\ steps' = Append(steps, Step("extract", TRUE))
  /\ pc' = next_pc("extract", TRUE)
  /\ UNCHANGED <<store, replies, op, arg, err, sent, storeBefore, llmCalls,
                 completion, llmRaised, storeErr, database, schema, prompt,
                 samplesSeen, session, disk, page, lastFrom>>

\* "results = st.session_state.sql_agent.execute_query(sql_query)"
execute_step ==
  /\ pc = "execute"
  /\ \E o \in execute_outcomes(ret.text, store) :
       /\ ret' = o.ret
       /\ err' = o.err
       /\ sent' = sent \o o.sent
       /\ store' = o.after
       /\ storeErr' = o.storeErr
       /\ steps' = Append(steps, Step("execute", ~o.err.raised))
       /\ pc' = next_pc("execute", ~o.err.raised)
  /\ UNCHANGED <<replies, op, arg, storeBefore, llmCalls, completion,
                 llmRaised, database, schema, prompt, samplesSeen, session, disk, page, lastFrom>>

----------------------------------------------------------------------------
(* The UI session: one run of the page script on st.session_state         *)

\* sql_agent: None, or the agent constructed on the database file at path
NoAgent == [built |-> FALSE, path |-> 0]
Agent(p) == [built |-> TRUE, path |-> p]

\* database_path before any database was created (None)
NoPath == 0

\* the session state initialisation; last_sql and last_results are not
\* attributes of the session until has_last
NewSession ==
  [uploaded_data |-> <<>>, sql_agent |-> NoAgent, database_path |-> NoPath,
   has_last |-> FALSE, last_sql |-> <<>>, last_results |-> NoRet]

\* no page run yet
NoPage == [upload |-> "none", ask |-> "none"]

\* "if uploaded_files:" and its try block, with the files holding the
\* tables files and the API key present or not: every way the block can
\* end. Each database file gets a path of its own (the runs that write one
\* are more than a second apart)
upload_outcomes(sess, dsk, files, key) ==
  IF files = <<>>
  THEN {[session |-> sess, disk |-> dsk, upload |-> "none"]}
  ELSE LET read == [sess EXCEPT !.uploaded_data = files]
           path == Len(dsk) + 1
           made == [read EXCEPT !.database_path = path]
           written == Append(dsk, files)
       IN {[session |-> sess, disk |-> dsk, upload |-> "read_failed"],
           [session |-> read, disk |-> dsk, upload |-> "db_failed"]} \cup
          (IF key
           THEN {[session |-> made, disk |-> written,
                  upload |-> "agent_failed"],
                 [session |-> [made EXCEPT !.sql_agent = Agent(path)],
                  disk |-> written, upload |-> "ok"]}
           ELSE {[session |-> made, disk |-> written, upload |-> "no_key"]})

\* the try block of the question form on an agent whose store is in state
\* st: generate_sql, then execute_query on what it returned
ask_outcomes(rs, st) ==
  UNION
    {LET g == generate_result(r)
     IN IF g.err.raised
        THEN {[ask |-> "gen_failed", op |-> "generate_sql", sql |-> <<>>,
               ret |-> NoRet, err |-> g.err, sent |-> <<>>, after |-> st,
               storeErr |-> <<>>, completion |-> r.content,
               llmRaised |-> r.raised]}
        ELSE {[ask |-> IF o.err.raised THEN "exec_failed" ELSE "ok",
               op |-> "execute_query", sql |-> g.ret.text,
               ret |-> o.ret, err |-> o.err, sent |-> o.sent,
               after |-> o.after, storeErr |-> o.storeErr,
               completion |-> r.content, llmRaised |-> r.raised] :
                 o \in execute_outcomes(g.ret.text, st)}
       : r \in llm_invoke(rs)}

\* last_sql written as soon as generate_sql returned
store_results_early(sess, a) ==
  IF a.op = "execute_query"
  THEN [sess EXCEPT !.last_sql = a.sql,
                    !.has_last = @ \/ a.ask = "ok",
                    !.last_results = IF a.ask = "ok" THEN a.ret ELSE @]
  ELSE sess

\* "st.session_state.last_sql = sql_query" and
\* "st.session_state.last_results = results", reached when neither call
\* raised
store_results(sess, a) ==
  IF a.ask = "ok"
  THEN [sess EXCEPT !.has_last = TRUE, !.last_sql = a.sql,
                    !.last_results = a.ret]
  ELSE sess

\* one run of main(): the upload block, then the question form when data
\* is loaded and an agent exists
page_run(files, key, button, question) ==
  /\ files # <<>> => Len(disk) < MaxUploads
  /\ \E u \in upload_outcomes(session, disk, files, key) :
       LET built == u.upload = "ok"
           db == IF built THEN files ELSE database
           st == IF built THEN StoreOf(files) ELSE store
           sch == IF built THEN get_database_schema(files) ELSE schema
           form == u.session.uploaded_data # <<>> /\ u.session.sql_agent.built
       IN /\ database' = db
          /\ schema' = sch
          /\ storeBefore' = st
          /\ IF form /\ button /\ strip(question) # <<>>
             THEN \E a \in ask_outcomes(replies, st) :
                    /\ session' = store_results(u.session, a)
                    /\ store' = a.after
                    /\ disk' = [u.disk EXCEPT ![u.session.sql_agent.path] =
                                  current_tables(db, a.after)]
                    /\ page' = [upload |-> u.upload, ask |-> a.ask]
                    /\ lastFrom' = IF a.ask = "ok" THEN db ELSE lastFrom
                    /\ op' = a.op
                    /\ arg' = IF a.op = "generate_sql" THEN question ELSE a.sql
                    /\ ret' = a.ret
                    /\ err' = a.err
                    /\ sent' = a.sent
                    /\ llmCalls' = 1
                    /\ completion' = a.completion
                    /\ llmRaised' = a.llmRaised
                    /\ storeErr' = a.storeErr
                    /\ prompt' = compose(sch)
             ELSE /\ session' = u.session
                  /\ store' = st
                  /\ disk' = u.disk
                  /\ page' = [upload |-> u.upload,
                              ask |-> IF form /\ button THEN "empty"
                                      ELSE "none"]
                  /\ lastFrom' = lastFrom
                  /\ op' = "page_run"
                  /\ arg' = <<>>
                  /\ ret' = NoRet
                  /\ err' = NoErr
                  /\ sent' = <<>>
                  /\ llmCalls' = 0
                  /\ completion' = <<>>
                  /\ llmRaised' = NoErr
                  /\ storeErr' = <<>>
                  /\ prompt' = <<>>
  /\ UNCHANGED <<replies, pc, steps, samplesSeen>>

\* the Results section is rendered: inside the question section, when the
\* session has last_sql and last_results
results_shown(sess) ==
  sess.uploaded_data # <<>> /\ sess.sql_agent.built /\ sess.has_last

----------------------------------------------------------------------------
(* Inputs *)

WORD_select == <<"s","e","l","e","c","t">>
WORD_x == <<"x">>

\* the keywords that occur in completion texts: the first, a middle one,
\* two that share a first letter, and the last of sql_keywords
InputKeywords == {KW_SELECT, KW_DELETE, KW_DROP, KW_WITH}

\* the pieces free-form completion texts are built from
Pieces ==
  InputKeywords \cup
  {WORD_select, WORD_x, <<SP>>, <<NL>>, <<SEMI>>, <<ESZETT>>,
   FENCE, FENCE_SQL}

RECURSIVE FreeTexts(_)
\* every concatenation of at most n pieces
FreeTexts(n) ==
  IF n = 0 THEN {<<>>}
  ELSE LET prev == FreeTexts(n - 1)
       IN prev \cup {p \o t : p \in Pieces, t \in prev}

StmtWords == InputKeywords \cup {WORD_select, WORD_x}

RECURSIVE WordLists(_)
\* texts of at most n words, each preceded by one space
WordLists(n) ==
  IF n = 0 THEN {<<>>}
  ELSE LET prev == WordLists(n - 1)
       IN prev \cup {<<SP>> \o w \o t : w \in StmtWords, t \in prev}

\* statements: a keyword followed by at most n - 1 words
Statements(n) == {k \o t : k \in InputKeywords, t \in WordLists(n - 1)}

\* opening fences: tagged sql, untagged, tagged with another language
FenceOpens ==
  {FENCE_SQL \o <<NL>>, FENCE \o <<NL>>,
   FENCE_SQL \o <<"i","t","e">> \o <<NL>>}
FenceCloses == {<<NL>> \o FENCE, FENCE}

\* the fenced forms [open, statement, close] and their texts
FencedForms ==
  [open : FenceOpens, stmt : Statements(MaxPieces), close : FenceCloses]
FencedText(f) == f.open \o f.stmt \o f.close

\* the completion texts the extractor is checked on
Texts == FreeTexts(MaxPieces) \cup {FencedText(f) : f \in FencedForms}

Query(k) == k \o <<SP>> \o WORD_x

\* the texts callers hand to execute_query and validate_query: one
\* statement of each kind, and texts that are not statements
QueryTexts ==
  {Query(k) : k \in Keywords} \cup
  {<<>>, <<SP>>, WORD_x, <<SP>> \o Query(KW_DROP) \o <<SEMI>>,
   WORD_select \o <<SP>> \o WORD_x, KW_SELECT \o WORD_x}

\* the completions of the hosted model in the agent's specification
Completions ==
  {Query(KW_SELECT), FENCE_SQL \o <<NL>> \o Query(KW_DROP) \o <<NL>> \o FENCE,
   WORD_x \o <<SP>> \o Query(KW_DELETE), WORD_x}

Questions == {<<"question">>}

\* what the question form can hold when the button is pressed
FormTexts == Questions \cup {<<>>, <<SP>>, <<SP, "question">>}

\* the arguments of get_table_info: the names of tables, a name of no
\* table, the empty text, and no name
TableNames ==
  {TableDefs[i].name : i \in 1..Len(TableDefs)} \cup {<<"z">>, <<>>, NoName}

----------------------------------------------------------------------------
(* Specifications *)

\* the agent right after construction on the database db: the snapshot
\* is taken, no call was made yet
InitAgent(db) ==
  /\ database = db
  /\ schema = get_database_schema(db)
  /\ store = StoreOf(db)
  /\ prompt = <<>>
  /\ pc = "idle"
  /\ steps = <<>>
  /\ samplesSeen = {}
  /\ session = NewSession
  /\ disk = <<>>
  /\ page = NoPage
  /\ lastFrom = <<>>
  /\ op = "none"
  /\ arg = <<>>
  /\ ret = NoRet
  /\ err = NoErr
  /\ sent = <<>>
  /\ storeBefore = store
  /\ llmCalls = 0
  /\ completion = <<>>
  /\ llmRaised = NoErr
  /\ storeErr = <<>>

\* no call made yet, on a database with one loaded table of n rows
InitCall(n) == InitAgent(<<Table(1, n, FALSE)>>)

\* the agent right after construction on a loaded database
Init == \E n \in 0..MaxRows : InitCall(n) /\ replies = Completions

GenerateSql == \E q \in Questions : generate_sql(q)

\* the caller runs the query generate_sql returned
ExecuteGenerated ==
  /\ op = "generate_sql"
  /\ ret.tag = "text"
  /\ execute_query(ret.text)

ExecuteQuery == \E s \in QueryTexts : execute_query(s)

ValidateQuery == \E s \in QueryTexts : validate_query(s)

ExplainQuery == \E s \in QueryTexts : explain_query(s)
GetTableInfo == \E name \in TableNames : get_table_info(name)
GetSampleQueries == get_sample_queries

Next ==
  \/ GenerateSql
  \/ ExecuteGenerated
  \/ ExecuteQuery
  \/ ValidateQuery
  \/ ExplainQuery
  \/ GetTableInfo
  \/ GetSampleQueries

Spec == Init /\ [][Next]_vars

\* the extractor on every completion text: the model answers with one
\* text of Texts, the agent cleans it and the caller executes the result
InitExtract == InitCall(MaxRows) /\ replies \in {{t} : t \in Texts}

NextExtract == GenerateSql \/ ExecuteGenerated

SpecExtract == InitExtract /\ [][NextExtract]_vars

\* the calls that read the snapshot, on every database: the agent is
\* constructed on a database of Databases
InitSchema ==
  \E db \in Databases : InitAgent(db) /\ replies = {Query(KW_SELECT)}
NextSchema == GenerateSql \/ GetTableInfo \/ GetSampleQueries
SpecSchema == InitSchema /\ [][NextSchema]_vars

\* the question form: questions are submitted one after the other and
\* each is handled step by step
InitAsk == \E n \in 0..MaxRows : InitCall(n) /\ replies = Completions
Submit == \E q \in FormTexts : submit(q)
NextAsk ==
  \/ Submit
  \/ compose_step
  \/ call_model_step
  \/ extract_step
  \/ execute_step
SpecAsk == InitAsk /\ [][NextAsk]_vars

\* the files a user uploads, by the tables they give
Uploads == {<<Table(i, MaxRows, FALSE)>> : i \in 1..2}

\* what the question form holds in a page run: a question, or blanks
SessionTexts == {<<"question">>, <<SP>>}

\* the completions of the hosted model in the UI session: a query that
\* returns rows, a fenced statement that changes the store, and a text
\* that execute_query refuses
SessionCompletions ==
  {Query(KW_SELECT), FENCE_SQL \o <<NL>> \o Query(KW_DROP) \o <<NL>> \o FENCE,
   WORD_x}

\* the UI session from its first page run on
InitSession == InitAgent(<<>>) /\ replies = SessionCompletions
PageRun ==
  \E files \in Uploads \cup {<<>>}, key \in BOOLEAN, button \in BOOLEAN,
     q \in SessionTexts :
    page_run(files, key, button, q)
NextSession == PageRun
SpecSession == InitSession /\ [][NextSession]_vars

----------------------------------------------------------------------------
(* Properties of the Query Executor, validate_query and generate_sql,      *)
(* checked under Spec                                                      *)

\* C1: execute_query(s) sends s to the store only if s, trimmed and
\* upper-cased, is non-empty and starts with one of the eight keywords;
\* when the check fails an error is raised and the store is not called
Thm_C1 ==
  op = "execute_query" =>
    LET u == upper(strip(arg))
        passes == u # <<>> /\ \E k \in Keywords : startswith(u, k)
    IN /\ (sent # <<>> => passes /\ sent = <<arg>>)
       /\ (~passes => /\ err.raised
                      /\ ret = NoRet
                      /\ sent = <<>>
                      /\ storeErr = <<>>
                      /\ store = storeBefore)

\* a non-empty text without keyword prefix was refused
Wit_C1 ==
  /\ op = "execute_query"
  /\ strip(arg) # <<>>
  /\ \A k \in Keywords : ~startswith(upper(strip(arg)), k)
  /\ err.raised
  /\ sent = <<>>

\* C2: validate_query(s) returns a boolean and runs no statement against
\* the store, so the store is the same before and after the call
Cex_C2 ==
  op = "validate_query" =>
    /\ ret.tag = "bool"
    /\ sent = <<>>
    /\ store = storeBefore

\* C7: a rejection by the keyword-prefix check reaches the caller of
\* execute_query as an error of its own kind, never wrapped or reported
\* as the execution error that a failure of the store is reported as
Cex_C7 ==
  (/\ op = "execute_query"
   /\ strip(arg) # <<>>
   /\ \A k \in Keywords : ~startswith(upper(strip(arg)), k))
  => /\ err.raised
     /\ ~startswith(err.msg, ERR_PREFIX)

\* C8: when the store fails on a statement that passed the check,
\* execute_query raises one execution error whose message contains the
\* store's message; the store was called exactly once and nothing is
\* returned
Thm_C8 ==
  (op = "execute_query" /\ storeErr # <<>>) =>
    /\ err.raised
    /\ startswith(err.msg, ERR_PREFIX)
    /\ contains(err.msg, storeErr)
    /\ Len(sent) = 1
    /\ ret = NoRet

\* the store rejected a statement that passed the check
Wit_C8 ==
  /\ op = "execute_query"
  /\ storeErr = MSG_SYNTAX
  /\ \E k \in Keywords : startswith(upper(strip(arg)), k)
  /\ err.raised
  /\ sent = <<arg>>

\* C9: a statement that starts with any of the eight keywords, DELETE,
\* DROP, ALTER, INSERT, UPDATE and CREATE as much as SELECT, passes the
\* gate and is sent to the store unmodified
Thm_C9 ==
  (/\ op = "execute_query"
   /\ \E k \in Keywords : startswith(upper(strip(arg)), k))
  => sent = <<arg>>

\* a DROP statement was sent and took effect
Wit_C9 ==
  /\ op = "execute_query"
  /\ startswith(upper(strip(arg)), KW_DROP)
  /\ sent = <<arg>>
  /\ storeBefore.exists
  /\ ~store.exists

\* C10: when the model call fails during generate_sql, the caller gets
\* that very error, no query text is returned, the model was called once
\* and no statement is executed against the store
Thm_C10 ==
  (op = "generate_sql" /\ llmRaised.raised) =>
    /\ err = llmRaised
    /\ ret = NoRet
    /\ llmCalls = 1
    /\ sent = <<>>
    /\ store = storeBefore

\* the model call failed
Wit_C10 ==
  /\ op = "generate_sql"
  /\ llmRaised \in ModelErrors
  /\ err.raised

----------------------------------------------------------------------------
(* Properties of the Query Extractor, checked under SpecExtract, where the *)
(* model answers with the one text of replies                              *)

Cex_C4 ==
  (/\ op = "generate_sql"
   /\ ret.tag = "text"
   /\ \A i \in 1..Len(completion) : completion[i] # ESZETT)
  => LET t == strip(re_sub(FENCE, re_sub(FENCE_SQL, strip(completion))))
         u == upper(t)
         pos == {i \in 1..Len(u) :
                   \E k \in Keywords : startswith(SubSeq(u, i, Len(u)), k)}
         first == CHOOSE i \in pos : \A j \in pos : i <= j
         kept == SubSeq(t, first, Len(t))
     IN pos # {} =>
          ret.text = IF kept[Len(kept)] = SEMI THEN kept ELSE kept \o <<SEMI>>

\* C5: for a completion that wraps a statement in a fenced code block,
\* tagged or not, the extractor returns exactly the statement followed
\* by ';'
Cex_C5 ==
  (op = "generate_sql" /\ ret.tag = "text") =>
    \A f \in FencedForms :
      completion = FencedText(f) => ret.text = f.stmt \o <<SEMI>>

\* C6: for a completion text without any of the eight keywords the
\* extractor returns the trimmed text with only ';' appended, and
\* execute_query on that output fails with the invalid-format error
\* without calling the store
Cex_C6 ==
  LET reply == CHOOSE t \in replies : TRUE
      nokw == \A k \in Keywords : ~contains(upper(reply), k)
  IN /\ (op = "generate_sql" /\ ret.tag = "text" /\ nokw)
          => ret.text = strip(reply) \o <<SEMI>>
     /\ (op = "execute_query" /\ nokw)
          => /\ err.raised
             /\ contains(err.msg, ERR_FORMAT)
             /\ sent = <<>>

\* C6, as amended: for a completion text that, with its fence delimiters
\* removed, contains none of the eight keywords when upper-cased, the
\* extractor returns that text (fence delimiters and the whitespace after
\* them removed, then trimmed) with ';' appended unless it already ends
\* with ';'; execute_query on that output raises an error carrying the
\* invalid-format message and does not call the store
Thm_C6 ==
  LET reply == CHOOSE t \in replies : TRUE
      bare == strip(re_sub(FENCE, re_sub(FENCE_SQL, strip(reply))))
      nokw == \A k \in Keywords : ~contains(upper(bare), k)
  IN /\ (op = "generate_sql" /\ ret.tag = "text" /\ nokw)
          => ret.text = IF bare # <<>> /\ bare[Len(bare)] = SEMI
                        THEN bare ELSE bare \o <<SEMI>>
     /\ (op = "execute_query" /\ nokw)
          => /\ err.raised
             /\ contains(err.msg, ERR_FORMAT)
             /\ ret = NoRet
             /\ sent = <<>>
             /\ store = storeBefore

\* a fenced text without keyword, ending with ';', was cleaned and refused
Wit_C6 ==
  LET reply == CHOOSE t \in replies : TRUE
  IN /\ op = "execute_query"
     /\ contains(reply, FENCE)
     /\ endswith(arg, <<WORD_x[1], SEMI>>)
     /\ \A k \in Keywords : ~contains(upper(arg), k)
     /\ err.raised
     /\ sent = <<>>


----------------------------------------------------------------------------
(* Properties of the Schema Introspector, checked under SpecSchema         *)

\* C12: building the snapshot never aborts because a sample query raises:
\* every table of the database is in the snapshot, in order, with its
\* column names and declared types; a table whose sample query raises has
\* an empty sample list; every other table has the entry it would have
\* in a database where no sample query raises
Thm_C12 ==
  /\ Len(schema) = Len(database)
  /\ \A i \in 1..Len(database) :
       /\ schema[i].name = database[i].name
       /\ schema[i].columns =
            [k \in 1..Len(database[i].cols) |-> database[i].cols[k].name]
       /\ schema[i].types = database[i].cols
       /\ database[i].unreadable => schema[i].sample_data = <<>>
       /\ ~database[i].unreadable =>
            schema[i] =
              get_database_schema(
                [j \in 1..Len(database) |->
                   [database[j] EXCEPT !.unreadable = FALSE]])[i]

\* a table with rows whose sample query raised, before a readable table
\* whose sample rows were taken, as get_table_info shows the snapshot
Wit_C12 ==
  /\ op = "get_table_info" /\ ret = MappingRet(schema)
  /\ Len(database) = 2
  /\ database[1].unreadable /\ database[1].nrows > 0
  /\ ~database[2].unreadable /\ schema[2].sample_data # <<>>
  /\ schema[1].sample_data = <<>>

\* C17 as stated: for every table the sample list holds exactly
\* min(5, number of rows of the table) rows
Cex_C17 ==
  \A i \in 1..Len(database) :
    Len(schema[i].sample_data) =
      (IF database[i].nrows < 5 THEN database[i].nrows ELSE 5)

\* C17 amended: for every table whose sample query does not raise the
\* sample list holds the first min(5, number of rows) rows; no sample list
\* holds more than 5 rows; an empty table has an empty sample list and the
\* construction raises no error
Thm_C17 ==
  \A i \in 1..Len(database) :
    /\ i <= Len(schema)
    /\ Len(schema[i].sample_data) <= 5
    /\ database[i].nrows = 0 => schema[i].sample_data = <<>>
    /\ ~database[i].unreadable =>
         /\ Len(schema[i].sample_data) =
              (IF database[i].nrows < 5 THEN database[i].nrows ELSE 5)
         /\ \A j \in 1..Len(schema[i].sample_data) :
              schema[i].sample_data[j] = j

\* a table of more than 5 rows with 5 sample rows, next to an empty table,
\* as get_table_info shows the first entry
Wit_C17 ==
  /\ Len(database) = 2
  /\ op = "get_table_info" /\ ret = EntryRet(schema[1])
  /\ ~database[1].unreadable /\ database[1].nrows > 5
  /\ Len(schema[1].sample_data) = 5
  /\ ~database[2].unreadable /\ database[2].nrows = 0
  /\ schema[2].sample_data = <<>>

----------------------------------------------------------------------------
(* Properties of the Prompt Composer, checked under SpecSchema             *)

\* C18: the schema block of the prompt names every table of the snapshot
\* in order; the part of each table lists every column with its declared
\* type in order, and shows the first min(3, n) of the table's n sample
\* rows in order under one "Sample data:" line, and neither that line nor
\* a row when n = 0
Thm_C18 ==
  op = "generate_sql" =>
    LET tables == SelectSeq(prompt, LAMBDA l : l.kind = "Table: ")
        at(i) == CHOOSE p \in 1..Len(prompt) :
                   prompt[p].kind = "Table: " /\ prompt[p].name = schema[i].name
        hints == {p \in 1..Len(prompt) : prompt[p].kind = "RELATIONSHIP HINTS:"}
        last(i) == IF i < Len(schema) THEN at(i + 1) - 1
                   ELSE IF hints # {} THEN (CHOOSE p \in hints : TRUE) - 1
                   ELSE Len(prompt)
        part(i) == SubSeq(prompt, at(i), last(i))
        cols(i) == SelectSeq(part(i), LAMBDA l : l.kind = "  - ")
        rows(i) == SelectSeq(part(i), LAMBDA l : l.kind = "  Row ")
        heads(i) == SelectSeq(part(i), LAMBDA l : l.kind = "Sample data:")
        n(i) == Len(schema[i].sample_data)
    IN /\ Len(tables) = Len(schema)
       /\ \A i \in 1..Len(schema) : tables[i].name = schema[i].name
       /\ \A i \in 1..Len(schema) :
            /\ Len(cols(i)) = Len(schema[i].columns)
            /\ \A k \in 1..Len(cols(i)) :
                 /\ cols(i)[k].name = schema[i].columns[k]
                 /\ cols(i)[k].type = schema[i].types[k].type
            /\ Len(rows(i)) = (IF n(i) < 3 THEN n(i) ELSE 3)
            /\ \A k \in 1..Len(rows(i)) :
                 /\ rows(i)[k].idx = k
                 /\ rows(i)[k].row = schema[i].sample_data[k]
            /\ Len(heads(i)) = (IF n(i) = 0 THEN 0 ELSE 1)

\* a prompt composed for a table with more than 3 sample rows and a table
\* with none
Wit_C18 ==
  /\ op = "generate_sql"
  /\ Len(schema) = 2
  /\ Len(schema[1].sample_data) > 3
  /\ schema[2].sample_data = <<>>
  /\ Len(SelectSeq(prompt, LAMBDA l : l.kind = "  Row ")) = 3

\* C19: the schema description holds the relationship-hints block once
\* when the snapshot has more than one table, and not at all when it has
\* one table or none
Thm_C19 ==
  op = "generate_sql" =>
    LET at == {p \in 1..Len(prompt) : prompt[p].kind = "RELATIONSHIP HINTS:"}
    IN /\ Cardinality(at) = (IF Len(schema) > 1 THEN 1 ELSE 0)
       /\ \A p \in at : SubSeq(prompt, p, Len(prompt)) = HintLines

\* a prompt composed for one table, without the hints
Wit_C19 ==
  /\ op = "generate_sql"
  /\ Len(schema) = 1
  /\ \A p \in 1..Len(prompt) : prompt[p].kind # "RELATIONSHIP HINTS:"
  /\ \E p \in 1..Len(prompt) : prompt[p].kind = "Table: "


----------------------------------------------------------------------------
(* Properties of get_sample_queries and get_table_info, checked under      *)
(* SpecSchema                                                              *)

\* C15 as stated: for every table of the snapshot the list returned by
\* get_sample_queries holds the table's three basic questions and, when a
\* column of the table is numeric, the three questions on its first
\* numeric column
Cex_C15 ==
  op = "get_sample_queries" =>
    \A i \in 1..Len(schema) :
      \A k \in 1..Len(basic_queries(schema[i]) \o numeric_queries(schema[i])) :
        \E p \in 1..Len(ret.data) :
          ret.data[p] =
            (basic_queries(schema[i]) \o numeric_queries(schema[i]))[k]

\* C15 amended: get_sample_queries returns the first 10 of the questions
\* generated table by table in the order of the snapshot: per table the
\* row-preview, record-count and unique-values questions and, when the
\* name of a column's declared type holds "int" or "float", the average,
\* maximum and top-5 questions on the first such column; the limit of 10
\* applies to the whole list
Thm_C15 ==
  op = "get_sample_queries" =>
    LET res == ret.data
        numeric(i) ==
          {k \in 1..Len(schema[i].types) :
             schema[i].types[k].type \in {TYPE_BIGINT, TYPE_FLOAT}}
        col(i) ==
          schema[i].types[CHOOSE k \in numeric(i) :
                            \A j \in numeric(i) : k <= j].name
        t(i) == schema[i].name
        expected(i) ==
          <<Q("Show me the first 10 rows from {table}", <<>>, t(i)),
            Q("Count the total number of records in {table}", <<>>, t(i)),
            Q("Show me all unique values in the first column of {table}",
              <<>>, t(i))>> \o
          (IF numeric(i) = {} THEN <<>>
           ELSE <<Q("Calculate the average of {col} in {table}", col(i), t(i)),
                  Q("Find the maximum value of {col} in {table}", col(i), t(i)),
                  Q("Show me the top 5 records by {col} in {table}", col(i),
                    t(i))>>)
        total ==
          Cardinality({<<i, k>> \in (1..Len(schema)) \X (1..6) :
                         k <= Len(expected(i))})
        of(i) == SelectSeq(res, LAMBDA q : q.table = t(i))
        idx(p) == CHOOSE i \in 1..Len(schema) : res[p].table = t(i)
    IN /\ Len(res) = (IF total < 10 THEN total ELSE 10)
       /\ \A p \in 1..Len(res) : \E i \in 1..Len(schema) : res[p].table = t(i)
       /\ \A p, q \in 1..Len(res) : p < q => idx(p) <= idx(q)
       /\ \A i \in 1..Len(schema) :
            /\ Len(of(i)) <= Len(expected(i))
            /\ \A k \in 1..Len(of(i)) : of(i)[k] = expected(i)[k]
            /\ Len(of(i)) < Len(expected(i)) =>
                 /\ Len(res) = 10
                 /\ \A j \in (i + 1)..Len(schema) : of(j) = <<>>

\* two tables with a numeric column each give 12 questions, and the
\* list ends after the first of the second table's numeric questions
Wit_C15 ==
  /\ op = "get_sample_queries"
  /\ Len(schema) = 2
  /\ Len(ret.data) = 10
  /\ ret.data[10] =
       Q("Calculate the average of {col} in {table}", <<"p">>, <<"b">>)

\* C20 as stated: the entry for the name of a table, an empty mapping for
\* a non-empty text that names no table, the whole snapshot when no name
\* is given, and the whole snapshot only when no name is given
Cex_C20 ==
  op = "get_table_info" =>
    LET isTable == \E i \in 1..Len(schema) : schema[i].name = arg
    IN /\ isTable => \E i \in 1..Len(schema) :
                       schema[i].name = arg /\ ret = EntryRet(schema[i])
       /\ (arg # NoName /\ arg # <<>> /\ ~isTable) => ret = MappingRet(<<>>)
       /\ arg = NoName => ret = MappingRet(schema)
       /\ (schema # <<>> /\ ret = MappingRet(schema)) => arg = NoName

\* C20 amended: the entry for the name of a table, an empty mapping
\* without error for a non-empty text that names no table, and the whole
\* snapshot when no name or the empty text is given; a non-empty name
\* never gets the whole of a snapshot that has a table
Thm_C20 ==
  op = "get_table_info" =>
    LET isTable == \E i \in 1..Len(schema) : schema[i].name = arg
    IN /\ err = NoErr
       /\ isTable => \E i \in 1..Len(schema) :
                       schema[i].name = arg /\ ret = EntryRet(schema[i])
       /\ (arg # NoName /\ arg # <<>> /\ ~isTable) => ret = MappingRet(<<>>)
       /\ arg \in {NoName, <<>>} => ret = MappingRet(schema)
       /\ (schema # <<>> /\ ret = MappingRet(schema)) =>
            arg \in {NoName, <<>>}

\* the empty text as the name gets the whole of a snapshot with tables
Wit_C20 ==
  /\ op = "get_table_info"
  /\ arg = <<>>
  /\ schema # <<>>
  /\ ret = MappingRet(schema)


----------------------------------------------------------------------------
(* Properties of the Schema Snapshot across calls, checked under Spec      *)

\* C13: after construction the snapshot stays what was introspected when
\* the agent was built, whatever calls of generate_sql, execute_query,
\* get_table_info, get_sample_queries, validate_query and explain_query
\* are made
Thm_C13 == schema = get_database_schema(database)

\* a call made after a statement dropped the table the snapshot describes
Wit_C13 ==
  /\ op \in {"generate_sql", "get_table_info", "get_sample_queries",
             "explain_query"}
  /\ ~store.exists
  /\ schema # <<>>
  /\ schema[1].name = database[1].name

\* C14 as stated: the tables and columns described in the prompt of every
\* generate_sql are those of the store at the time of the call
Cex_C14 ==
  op = "generate_sql" =>
    LET shape(pr) ==
          SelectSeq(pr, LAMBDA l : l.kind \in {"Table: ", "  - "})
    IN shape(prompt) =
         shape(create_schema_prompt(
                 get_database_schema(current_tables(database, store))))

\* C14 amended: the prompt of every generate_sql is composed from the
\* snapshot taken at construction, which is not introspected again: it
\* describes the tables, columns and sample rows the database had then,
\* also after a statement run through execute_query changed the store
Thm_C14 ==
  op = "generate_sql" =>
    /\ prompt = create_schema_prompt(get_database_schema(database))
    /\ Len(SelectSeq(prompt, LAMBDA l : l.kind = "Table: ")) = Len(database)
    /\ \A i \in 1..Len(database) :
         \E p \in 1..Len(prompt) :
           prompt[p].kind = "Table: " /\ prompt[p].name = database[i].name

\* a prompt that describes a table the store no longer has
Wit_C14 ==
  /\ op = "generate_sql"
  /\ ~store.exists
  /\ \E p \in 1..Len(prompt) :
       prompt[p].kind = "Table: " /\ prompt[p].name = database[1].name

\* C16: all calls of get_sample_queries return the same ordered list,
\* whatever calls were made in between, and a call of it sends nothing to
\* the store, does not call the model, raises nothing and leaves store and
\* snapshot as they were
Thm_C16 ==
  /\ \A x, y \in samplesSeen : x.list = y.list
  /\ op = "get_sample_queries" =>
       /\ ret.tag = "list"
       /\ [list |-> ret.data, store |-> store] \in samplesSeen
       /\ err = NoErr
       /\ sent = <<>>
       /\ llmCalls = 0
       /\ store = storeBefore
       /\ schema = get_database_schema(database)

\* two calls, one with the table in the store and one after it was
\* dropped, returned the same questions
Wit_C16 ==
  /\ op = "get_sample_queries"
  /\ ret.data # <<>>
  /\ \E x, y \in samplesSeen :
       /\ x.store.exists
       /\ ~y.store.exists
       /\ x.list = ret.data
       /\ y.list = ret.data

----------------------------------------------------------------------------
(* Properties of the handling of a question, checked under SpecAsk         *)

\* C11: for each submitted question the steps taken are a prefix of
\* compose, call model, extract, execute, each taken at most once; every
\* step but the last one completed without error, so nothing runs after a
\* failure and nothing is tried again; the model is called at most once
\* and at most one statement is sent to the store, by the execute step
Thm_C11 ==
  op = "ask" =>
    LET order == <<"compose", "call_model", "extract", "execute">>
        failed == \E i \in 1..Len(steps) : ~steps[i].ok
    IN /\ Len(steps) <= 4
       /\ \A i \in 1..Len(steps) :
            /\ steps[i].name = order[i]
            /\ i < Len(steps) => steps[i].ok
       /\ llmCalls = (IF Len(steps) >= 2 THEN 1 ELSE 0)
       /\ Len(sent) <= 1
       /\ sent # <<>> => Len(steps) = 4
       /\ failed <=> pc = "failed"
       /\ pc = "done" <=> (Len(steps) = 4 /\ ~failed)
       /\ pc \in {"compose", "call_model", "extract", "execute"} =>
            pc = order[Len(steps) + 1]
       /\ prompt # <<>> <=> Len(steps) >= 1

\* a question answered by all four steps
Wit_C11 ==
  /\ op = "ask"
  /\ pc = "done"
  /\ Len(steps) = 4
  /\ Len(sent) = 1
  /\ ret.tag = "rows"


----------------------------------------------------------------------------
(* Idempotence of the Query Extractor, checked under SpecExtract           *)

\* C21: cleaning the output of a first cleaning gives the same text again,
\* for the completion text as the model returned it and for the trimmed
\* text generate_sql hands to the extractor
Cex_C21 ==
  op = "generate_sql" =>
    /\ clean_sql_query(clean_sql_query(completion)) =
         clean_sql_query(completion)
    /\ ret.tag = "text" => clean_sql_query(ret.text) = ret.text


----------------------------------------------------------------------------
(* Properties of the UI session, checked under SpecSession                 *)

\* C22: whenever sql_agent is not None, the agent was built on the
\* database file recorded in database_path, and that file holds the
\* tables of the recorded uploaded_data
Cex_C22 ==
  session.sql_agent.built =>
    /\ session.sql_agent.path = session.database_path
    /\ session.database_path \in 1..Len(disk)
    /\ LET names(ts) == [i \in 1..Len(ts) |-> ts[i].name]
       IN names(disk[session.database_path]) = names(session.uploaded_data)

\* C23: last_sql and last_results are written together, in a page run in
\* which generate_sql and execute_query both succeeded, as the query the
\* one returned and sent to the store and the result the other returned
\* for it; in every other page run both keep their values
Thm_C23 ==
  [][/\ page'.ask = "ok" =>
          /\ op' = "execute_query"
          /\ ~err'.raised
          /\ llmCalls' = 1
          /\ ~llmRaised'.raised
          /\ arg' = clean_sql_query(strip(completion'))
          /\ sent' = <<arg'>>
          /\ ret'.tag = "rows"
          /\ session'.has_last
          /\ session'.last_sql = arg'
          /\ session'.last_results = ret'
     /\ page'.ask # "ok" =>
          /\ session'.has_last = session.has_last
          /\ session'.last_sql = session.last_sql
          /\ session'.last_results = session.last_results
     /\ ~session'.has_last =>
          session'.last_sql = <<>> /\ session'.last_results = NoRet]_vars

\* a question whose query the agent refused, after an answered one: the
\* pair of the answered question is kept
Wit_C23 ==
  /\ page.ask = "exec_failed"
  /\ op = "execute_query"
  /\ err.raised
  /\ session.has_last
  /\ session.last_sql # arg
  /\ session.last_results.tag = "rows"

\* C24: the query and results shown in the Results section were produced
\* from the data that is loaded now
Cex_C24 == results_shown(session) => lastFrom = session.uploaded_data

====
